---- MODULE Spec2Model ----
(***************************************************************************)
(* Chainbase (chainbase.py): periodic harvest of option chains into the    *)
(* options_chains table.                                                   *)
(*                                                                         *)
(* Spec      the whole process: setup_database, the startup fetch,         *)
(*           schedule_fetch on the main thread and on Timer threads, and   *)
(*           every step of fetch_and_store_options / process_ticker.       *)
(*                                                                         *)
(* SpecCycle the startup fetch alone, over every --tickers list.            *)
(* SpecDte   the expiration filter of process_ticker as a function of the  *)
(*           expiration list and the current instant.                      *)
(* SpecRate  the @sleep_and_retry @limits(...) wrappers of the fetch       *)
(*           functions of one provider, called by the one running thread.  *)
(* SpecRateLive  the same, with time that goes on and sleeps that end.     *)
(* SpecChain get_option_chain on one chain response, inside the loop of    *)
(*           process_ticker.                                               *)
(* SpecHoldings  get_etf_holdings on one holdings response.                *)
(*                                                                         *)
(* A Python string made of dot-separated parts is a sequence of its parts: *)
(* "AAPL" is <<"AAPL">>, "SPY.ETF" is <<"SPY", "ETF">>, "" is << >>.       *)
(* A date 'YYYY-MM-DD' is its day number; an instant is a day number and   *)
(* the minutes elapsed since that day's local midnight.                    *)
(***************************************************************************)
EXTENDS Integers, Sequences, FiniteSets, TLC

VARIABLES
    args,       \* the parsed command line: tickers, drop_table, interval, and
                \* which of the connection parameters and API keys is invalid
    table,      \* committed rows of options_chains: row -> number of copies
    pc,         \* thread -> position in __main__ / schedule_fetch
    cyc,        \* thread -> its invocation of fetch_and_store_options
    tick,       \* thread -> the schedule_fetch invocation it is running
    ncycles,    \* invocations of fetch_and_store_options begun so far
    timer,      \* thread -> seconds until its armed Timer fires
    sched,      \* wall-clock bookkeeping of the schedule_fetch invocations
    filt,       \* SpecDte: one application of the expiration filter
    rl,         \* SpecRate: the rate-limit wrappers of one provider
    chain,      \* SpecChain: one chain response and what is done with it
    hold        \* SpecHoldings: one holdings response and what is returned

vars ==
    <<args, table, pc, cyc, tick, ncycles, timer, sched, filt, rl, chain, hold>>

----------------------------------------------------------------------------
\* Bounds of the model.

MaxEntries == 2         \* configured entries in --tickers
MaxHoldings == 2        \* holdings in one ETF holdings response
MaxCycles == 3          \* invocations of fetch_and_store_options in one run
MaxTimerThreads == 2    \* Timer threads alive at once
MaxBusy == 1            \* seconds one schedule_fetch invocation may spend working
MaxOptions == 3         \* option records in one chain response
MaxNormalizations == 2  \* times one chain response is handled
MaxResponse == 3        \* holding objects in the holdings response of SpecHoldings
MaxOffset == 92         \* latest expiration day after today given to the filter
Quantum == 30           \* seconds by which the rate limiter's clock advances

----------------------------------------------------------------------------
\* Program constants.

TRADING_START_HOUR == 9
TRADING_END_HOUR == 16
RATE_LIMIT == 60
Period == 60
MinDte == 1
MaxDte == 90

----------------------------------------------------------------------------
\* Symbols, entries, rows.

SeqsUpTo(S, n) == UNION {[1..k -> S] : k \in 0..n}

PlainSymbols == {<<"A">>, <<"B">>}
EtfEntries == {<<"S", "ETF">>, <<"Q", "ETF">>}
Entries == PlainSymbols \cup EtfEntries
\* What a holdings response may carry as 'symbol': a ticker or the empty string.
HoldingSymbols == PlainSymbols \cup {<< >>}

\* ticker.endswith('.ETF')
EndsWithETF(ticker) == Len(ticker) >= 2 /\ ticker[Len(ticker)] = "ETF"

\* The expiration list the options provider answers with (day numbers), and
\* the instant of the run: day 0, 10:00 local time.
ExpirationLists == {<<1, 2, 3>>}
Now == [day |-> 0, tod |-> 600]

Rows == [symbol : PlainSymbols, expiration : 1..3]
EmptyTable == [r \in Rows |-> 0]

\* The rows of a transaction written over the rows of the same ticker and
\* expiration (an upsert).
AddRowsReplacing(tbl, txn) ==
    [r \in Rows |->
        IF \E k \in 1..Len(txn) : txn[k] = r
        THEN Cardinality({k \in 1..Len(txn) : txn[k] = r})
        ELSE tbl[r]]

\* The rows of a transaction, added to a table.
AddRows(tbl, txn) ==
    [r \in Rows |-> tbl[r] + Cardinality({k \in 1..Len(txn) : txn[k] = r})]

----------------------------------------------------------------------------
\* Expiration filter (process_ticker).

\* (exp_date - datetime.datetime.now(PST)).days: exp_date is local midnight of
\* the expiration day; timedelta.days is the floor of the elapsed time in days.
dte(exp, now) == ((exp - now.day) * 1440 - now.tod) \div 1440

InWindow(exp, now) == MinDte <= dte(exp, now) /\ dte(exp, now) <= MaxDte

EligibleExpirations(expirations, now) ==
    SelectSeq(expirations, LAMBDA e : InWindow(e, now))

----------------------------------------------------------------------------
\* process_ticker.

\* Answers of get_option_expirations: the list, an HTTPError from
\* raise_for_status, or any other exception (a transport error of requests.get,
\* a KeyError/TypeError on data['expirations']['date']).
ExpirationAnswers ==
    [status : {"http_error", "other_error"}, dates : {<< >>}]
        \cup [status : {"ok"}, dates : ExpirationLists]

\* What stops the loop over the eligible expirations: nothing, or the failure
\* of get_option_chain or of cur.execute at the failAt-th eligible expiration.
LoopFailures == {"chain_fetch", "insert"}

\* process_ticker without its try/except: the HTTPError of the expirations
\* fetch propagates to the caller.
process_tickerNoExcept(ticker, txn, answer, now, failAt, failure) ==
    IF answer.status \in {"http_error", "other_error"}
    THEN [txn |-> txn, raised |-> "expirations_fetch",
          http |-> answer.status = "http_error"]
    ELSE
        LET eligible == EligibleExpirations(answer.dates, now)
            done == IF failAt = 0 THEN Len(eligible) ELSE failAt - 1
            rows == [k \in 1..done |->
                        [symbol |-> ticker, expiration |-> eligible[k]]]
        IN [txn |-> txn \o rows,
            raised |-> IF failAt = 0 THEN "none" ELSE failure,
            http |-> FALSE]

\* The result of process_ticker(ticker, cur, api_key) on transaction txn:
\*   txn     the transaction afterwards
\*   raised  "none", or the exception that propagates to the caller
\*   http    TRUE iff the expirations fetch raised HTTPError (caught, logged)
process_ticker(ticker, txn, answer, now, failAt, failure) ==
    IF answer.status = "http_error"
    THEN [txn |-> txn, raised |-> "none", http |-> TRUE]
    ELSE IF answer.status = "other_error"
    THEN [txn |-> txn, raised |-> "expirations_fetch", http |-> FALSE]
    ELSE
        LET eligible == EligibleExpirations(answer.dates, now)
            done == IF failAt = 0 THEN Len(eligible) ELSE failAt - 1
            rows == [k \in 1..done |->
                        [symbol |-> ticker, expiration |-> eligible[k]]]
        IN [txn |-> txn \o rows,
            raised |-> IF failAt = 0 THEN "none" ELSE failure,
            http |-> FALSE]

----------------------------------------------------------------------------
\* ETF resolver.

\* A holding object of the holdings response: with a 'symbol' field or without.
HoldingObjects ==
    [has : {TRUE}, symbol : HoldingSymbols] \cup [has : {FALSE}, symbol : {<< >>}]

\* Bodies of the holdings response: a JSON list of holding objects, or
\* something that is not a list.
HoldingsBodies ==
    [isList : {TRUE}, items : SeqsUpTo(HoldingObjects, MaxHoldings)]
        \cup [isList : {FALSE}, items : {<< >>}]

RECURSIVE SymbolsOf(_)
SymbolsOf(items) ==
    IF items = << >> THEN << >>
    ELSE IF Head(items).has
         THEN <<Head(items).symbol>> \o SymbolsOf(Tail(items))
         ELSE SymbolsOf(Tail(items))

\* One entry without 'symbol' making the whole response invalid.
get_etf_holdingsAllOrNothing(body) ==
    IF body.isList /\ \A k \in 1..Len(body.items) : body.items[k].has
    THEN SymbolsOf(body.items) ELSE << >>

\* What get_etf_holdings returns for a response body.
get_etf_holdings(body) == IF body.isList THEN SymbolsOf(body.items) ELSE << >>

\* Bodies of the portfolio-date response: a JSON list of objects with a 'date',
\* latest first; each object is its date.
HoldingDates == {"2024-06-30", "2024-03-31"}
DateBodies == SeqsUpTo(HoldingDates, 2)

\* Python's None.
None == "None"

\* A default date returned when the provider reports no dates.
get_latest_etf_holding_dateDefault(data) ==
    IF data # << >> THEN data[1] ELSE "1970-01-01"

\* What get_latest_etf_holding_date returns for a response body.
get_latest_etf_holding_date(data) == IF data # << >> THEN data[1] ELSE None

----------------------------------------------------------------------------
\* Threads and cycles.

MainThread == 0
TimerThreads == 1..MaxTimerThreads
Threads == {MainThread} \cup TimerThreads

\* Positions of a thread that is calling fetch_and_store_options.
CyclePcs == {"startup_fetch", "tick_fetch", "gated_fetch"}

\* Positions inside schedule_fetch.
TickPcs == {"tick_fetch", "gate", "gated_fetch", "arm"}

\* schedule_fetch starting its Timer first and working afterwards.
FlowTimerFirst(p) ==
    CASE p = "startup_fetch" -> "arm"
      [] p = "call" -> "arm"
      [] p = "arm" -> "tick_fetch"
      [] p = "tick_fetch" -> "gate"
      [] p = "gate" -> "gated_fetch"
      [] p = "skip" -> "return"
      [] p = "gated_fetch" -> "return"

\* Control flow of __main__ after the startup fetch, and of schedule_fetch:
\* the position that follows p.  "call" is the entry of schedule_fetch, "skip"
\* the else branch of the trading-hours test, "return" the end of the function.
Flow(p) ==
    CASE p = "startup_fetch" -> "tick_fetch"
      [] p = "call" -> "tick_fetch"
      [] p = "tick_fetch" -> "gate"
      [] p = "gate" -> "gated_fetch"
      [] p = "skip" -> "arm"
      [] p = "gated_fetch" -> "arm"
      [] p = "arm" -> "return"

\* The position of thread t after p; a thread that returns from schedule_fetch
\* ends (the main thread has nothing left to run either).
After(t, p) ==
    IF Flow(p) = "return"
    THEN IF t = MainThread THEN "done" ELSE "free"
    ELSE Flow(p)

\* phase      idle, entries (loop over tickers), holdings (loop over
\*            etf_holdings), committed, aborted (an exception left the function)
\* caller     where fetch_and_store_options was called from
\* i          index of the current entry of tickers
\* holdings   what the loop over etf_holdings has still to visit
\* processed  processed_tickers
\* txn        rows inserted through cur, not committed yet
\* attempts   tickers passed to process_ticker, in order
\* httpFailed tickers whose expirations fetch raised HTTPError
\* skipped    tickers met again when already in processed_tickers, and where
\* resolved   the symbols of the lists get_etf_holdings returned
\* noDate     indices of the ETF entries the provider reported no dates for
\* holdingsCalled  indices of the ETF entries get_etf_holdings was called for
\* cause      what raised, for an aborted cycle
IdleCycle ==
    [phase |-> "idle", caller |-> "none", i |-> 0, holdings |-> << >>,
     processed |-> {}, txn |-> << >>, attempts |-> << >>, httpFailed |-> {},
     skipped |-> {}, resolved |-> {}, noDate |-> {}, holdingsCalled |-> {},
     cause |-> "none"]

\* cycles  invocations of fetch_and_store_options begun by this schedule_fetch
\* gate    outcome of its trading-hours test
NoTick == [cycles |-> 0, gate |-> "unknown"]

\* sinceTick  seconds since the latest schedule_fetch invocation began (-1: none yet)
\* armedAt    sinceTick when that invocation started its Timer (-1: not yet)
\* gap        seconds between the starts of the last two invocations (-1: < 2)
\* prevBusy   armedAt of the earlier of those two invocations
NoSched == [sinceTick |-> -1, armedAt |-> -1, gap |-> -1, prevBusy |-> -1]

Running(t) == cyc[t].phase \in {"entries", "holdings"}

\* An exception path that commits what was inserted so far.
RaiseCommits(t, c, cause) ==
    /\ cyc' = [cyc EXCEPT ![t] = [c EXCEPT !.phase = "aborted", !.cause = cause]]
    /\ pc' = [pc EXCEPT ![t] = "dead"]
    /\ table' = AddRows(table, c.txn)

\* An exception leaves fetch_and_store_options and its caller uncaught: the
\* thread ends with a traceback, and the connection is dropped without a
\* commit, so the server rolls the transaction back.
Raise(t, c, cause) ==
    /\ cyc' = [cyc EXCEPT ![t] = [c EXCEPT !.phase = "aborted", !.cause = cause]]
    /\ pc' = [pc EXCEPT ![t] = "dead"]
    /\ table' = table

\* The cycle of thread t goes on as c.
Continue(t, c) ==
    /\ cyc' = [cyc EXCEPT ![t] = c]
    /\ UNCHANGED <<pc, table>>

\* The loop over etf_holdings left after its first holding.
AdvanceToNextEntry(c) ==
    [c EXCEPT !.phase = "entries", !.i = c.i + 1, !.holdings = << >>]

\* The loop position after the current entry or holding is done.
Advance(c) ==
    IF c.phase = "holdings" /\ Len(c.holdings) > 1
    THEN [c EXCEPT !.holdings = Tail(c.holdings)]
    ELSE [c EXCEPT !.phase = "entries", !.i = c.i + 1, !.holdings = << >>]

\* processed_tickers.add(ticker); process_ticker(ticker, cur, api_key)
CallProcessTicker(t, c, ticker) ==
    \E answer \in ExpirationAnswers :
        LET n == IF answer.status = "ok"
                 THEN Len(EligibleExpirations(answer.dates, Now)) ELSE 0
        IN \E failAt \in 0..n, failure \in LoopFailures :
            /\ args.invalid = "tradier_api_key" => answer.status = "http_error"
            /\ failAt = 0 => failure = "chain_fetch"
            /\ LET r == process_ticker(ticker, c.txn, answer, Now, failAt, failure)
                   d == [c EXCEPT !.processed = @ \cup {ticker},
                                  !.txn = r.txn,
                                  !.attempts = Append(@, ticker),
                                  !.httpFailed =
                                      IF r.http THEN @ \cup {ticker} ELSE @]
               IN IF r.raised = "none"
                  THEN Continue(t, Advance(d))
                  ELSE Raise(t, d, r.raised)

\* The membership test left out.
NotProcessedAlways(ticker, processed) == TRUE

\* if ticker not in processed_tickers / if holding not in processed_tickers
NotProcessed(ticker, processed) == ticker \notin processed

\* The ticker is in processed_tickers already: nothing is done for it.
Skip(t, c, ticker, via) ==
    Continue(t, Advance([c EXCEPT !.skipped =
                                @ \cup {[symbol |-> ticker, via |-> via]}]))

----------------------------------------------------------------------------
\* fetch_and_store_options.

\* processed_tickers kept from the thread's previous invocation.
NewCycleKeepsProcessed(prev, caller) ==
    [IdleCycle EXCEPT !.caller = caller, !.processed = prev.processed]

\* The locals of a new invocation of fetch_and_store_options; prev is what the
\* thread's previous invocation left.
NewCycle(prev, caller) == [IdleCycle EXCEPT !.caller = caller]

\* conn = psycopg2.connect(...); cur = conn.cursor(); processed_tickers = set()
Connect(t) ==
    /\ pc[t] \in CyclePcs
    /\ cyc[t].phase \in {"idle", "committed"}
    /\ ncycles < MaxCycles
    /\ ncycles' = ncycles + 1
    /\ tick' = [tick EXCEPT ![t].cycles =
                    IF pc[t] = "startup_fetch" THEN @ ELSE @ + 1]
    /\ \E ok \in BOOLEAN :
        LET c == NewCycle(cyc[t], pc[t])
        IN /\ args.invalid = "db" => ~ok
           /\ IF ok
              THEN Continue(t, [c EXCEPT !.phase = "entries", !.i = 1])
              ELSE Raise(t, c, "connect")
    /\ UNCHANGED <<filt, rl, chain, hold, args, timer, sched>>

\* One plain entry of the loop over tickers.
PlainEntry(t) ==
    /\ cyc[t].phase = "entries"
    /\ cyc[t].i <= Len(args.tickers)
    /\ LET ticker == args.tickers[cyc[t].i]
       IN /\ ~EndsWithETF(ticker)
          /\ IF NotProcessed(ticker, cyc[t].processed)
             THEN CallProcessTicker(t, cyc[t], ticker)
             ELSE Skip(t, cyc[t], ticker, "entry")
    /\ UNCHANGED <<filt, rl, chain, hold, args, tick, ncycles, timer, sched>>

\* One ETF entry: get_latest_etf_holding_date, then get_etf_holdings.
EtfEntry(t) ==
    /\ cyc[t].phase = "entries"
    /\ cyc[t].i <= Len(args.tickers)
    /\ EndsWithETF(args.tickers[cyc[t].i])
    /\ \/ Raise(t, cyc[t], "holding_date_fetch")
       \/ \E data \in DateBodies :
            /\ args.invalid # "fmp_api_key"
            /\ LET latest_date == get_latest_etf_holding_date(data)
                   c0 == [cyc[t] EXCEPT !.noDate =
                             IF data = << >> THEN @ \cup {cyc[t].i} ELSE @]
                   c1 == [c0 EXCEPT !.holdingsCalled = @ \cup {cyc[t].i}]
               IN IF latest_date = None
                  THEN Continue(t, Advance(c0))
                  ELSE \/ Raise(t, c1, "holdings_fetch")
                       \/ \E body \in HoldingsBodies :
                           LET etf_holdings == get_etf_holdings(body)
                               c == [c1 EXCEPT !.resolved = @ \cup
                                       {etf_holdings[k] :
                                            k \in 1..Len(etf_holdings)}]
                           IN Continue(t, IF etf_holdings = << >>
                                          THEN Advance(c)
                                          ELSE [c EXCEPT !.phase = "holdings",
                                                    !.holdings = etf_holdings])
    /\ UNCHANGED <<filt, rl, chain, hold, args, tick, ncycles, timer, sched>>

\* One holding of the loop over etf_holdings.
Holding(t) ==
    /\ cyc[t].phase = "holdings"
    /\ LET holding == Head(cyc[t].holdings)
       IN IF holding = << >>
          THEN Continue(t, Advance(cyc[t]))
          ELSE IF NotProcessed(holding, cyc[t].processed)
          THEN CallProcessTicker(t, cyc[t], holding)
          ELSE Skip(t, cyc[t], holding, "holding")
    /\ UNCHANGED <<filt, rl, chain, hold, args, tick, ncycles, timer, sched>>

\* conn.commit(); cur.close(); conn.close(); return.  The return of the
\* startup fetch is where __main__ calls schedule_fetch.
Commit(t) ==
    /\ cyc[t].phase = "entries"
    /\ cyc[t].i > Len(args.tickers)
    /\ \E ok \in BOOLEAN :
        IF ok
        THEN /\ table' = AddRows(table, cyc[t].txn)
             /\ cyc' = [cyc EXCEPT ![t].phase = "committed"]
             /\ pc' = [pc EXCEPT ![t] = After(t, pc[t])]
             /\ tick' = [tick EXCEPT ![t] =
                            IF pc[t] = "startup_fetch" THEN NoTick ELSE @]
             /\ sched' = IF pc[t] = "startup_fetch"
                         THEN [sched EXCEPT !.sinceTick = 0] ELSE sched
        ELSE /\ Raise(t, cyc[t], "commit")
             /\ UNCHANGED <<tick, sched>>
    /\ UNCHANGED <<filt, rl, chain, hold, args, ncycles, timer>>

----------------------------------------------------------------------------
\* __main__ and schedule_fetch.

\* setup_database(...)
SetupDatabase ==
    /\ pc[MainThread] = "setup"
    /\ \E ok \in BOOLEAN :
        /\ args.invalid = "db" => ~ok
        /\ IF ok
           THEN /\ table' = IF args.drop_table THEN EmptyTable ELSE table
                /\ pc' = [pc EXCEPT ![MainThread] = "startup_fetch"]
           ELSE /\ pc' = [pc EXCEPT ![MainThread] = "dead"]
                /\ UNCHANGED table
    /\ UNCHANGED <<filt, rl, chain, hold, args, cyc, tick, ncycles, timer, sched>>

\* now.hour of datetime.datetime.now(PST)
Hours == 0..23

is_trading_hours(hour) == TRADING_START_HOUR <= hour /\ hour < TRADING_END_HOUR

\* if is_trading_hours(): ... else: logger.info("... Skipping fetch.")
Gate(t) ==
    /\ pc[t] = "gate"
    /\ \E hour \in Hours :
        IF is_trading_hours(hour)
        THEN /\ pc' = [pc EXCEPT ![t] = After(t, "gate")]
             /\ tick' = [tick EXCEPT ![t].gate = "open"]
        ELSE /\ pc' = [pc EXCEPT ![t] = After(t, "skip")]
             /\ tick' = [tick EXCEPT ![t].gate = "closed"]
    /\ UNCHANGED <<filt, rl, chain, hold, args, table, cyc, ncycles, timer, sched>>

\* A Timer created with a longer delay than --interval.
TimerDelayLonger(interval) == interval + 1

\* The delay the Timer is created with.
TimerDelay(interval) == interval

\* Timer(interval, schedule_fetch, args=[...]).start()
Arm(t) ==
    /\ pc[t] = "arm"
    /\ \E u \in TimerThreads :
        /\ pc[u] = "free"
        /\ u # t
        /\ pc' = [pc EXCEPT ![u] = "armed", ![t] = After(t, "arm")]
        /\ timer' = [timer EXCEPT ![u] = TimerDelay(args.interval)]
    /\ IF Flow("arm") = "return"
       THEN /\ tick' = [tick EXCEPT ![t] = NoTick]
            /\ cyc' = [cyc EXCEPT ![t] = IdleCycle]
       ELSE UNCHANGED <<tick, cyc>>
    /\ sched' = [sched EXCEPT !.armedAt = sched.sinceTick]
    /\ UNCHANGED <<filt, rl, chain, hold, args, table, ncycles>>

\* The Timer expires and its thread calls schedule_fetch.
Fire(u) ==
    /\ pc[u] = "armed"
    /\ timer[u] = 0
    /\ pc' = [pc EXCEPT ![u] = After(u, "call")]
    /\ tick' = [tick EXCEPT ![u] = NoTick]
    /\ sched' = [sinceTick |-> 0, armedAt |-> -1,
                 gap |-> sched.sinceTick, prevBusy |-> sched.armedAt]
    /\ UNCHANGED <<filt, rl, chain, hold, args, table, cyc, ncycles, timer>>

\* One second passes: while a Timer is pending, or while schedule_fetch works.
TimePasses ==
    /\ \A u \in TimerThreads : pc[u] = "armed" => timer[u] > 0
    /\ \/ \E u \in TimerThreads : pc[u] = "armed"
       \/ /\ \E t \in Threads : pc[t] \in TickPcs
          /\ sched.sinceTick < MaxBusy
    /\ timer' = [u \in Threads |->
                    IF pc[u] = "armed" THEN timer[u] - 1 ELSE timer[u]]
    /\ sched' = [sched EXCEPT !.sinceTick = @ + 1]
    /\ UNCHANGED <<filt, rl, chain, hold, args, table, pc, cyc, tick, ncycles>>

----------------------------------------------------------------------------
\* The expiration filter on its own.

\* for exp in expirations: ... if 1 <= dte <= 90: get_option_chain(...)
ApplyFilter ==
    /\ ~filt.applied
    /\ filt' = [filt EXCEPT
                    !.selected = EligibleExpirations(filt.expirations, filt.now),
                    !.applied = TRUE]
    /\ UNCHANGED <<rl, chain, hold, args, table, pc, cyc, tick, ncycles, timer, sched>>

----------------------------------------------------------------------------
\* Rate-limited fetch functions.  Each decorated function has a limiter of its
\* own (one @limits(...) object per decoration) holding the time of its last
\* reset and its number of calls since; the limiters share nothing but the
\* clock, so the functions of one provider are followed and the calls of the
\* other provider's functions are time that passes.

Providers == {"options", "holdings"}

FetchFunctions(provider) ==
    IF provider = "options"
    THEN {"get_option_expirations", "get_option_chain"}
    ELSE {"get_latest_etf_holding_date", "get_etf_holdings"}

AllFetchFunctions == UNION {FetchFunctions(p) : p \in Providers}

Min(a, b) == IF a <= b THEN a ELSE b

\* One pass of the @limits(calls=RATE_LIMIT, period=60) wrapper of f on the
\* limiter state l: the period is restarted when it has run out, the call is
\* counted, and the call is refused (RateLimitException carrying the remaining
\* period) when the count exceeds RATE_LIMIT.
\*   elapsed   f -> seconds since the limiter's last reset, up to Period
\*   num_calls f -> calls counted since the last reset
LimitsWrapper(l, f) ==
    LET period_remaining == Period - l.elapsed[f]
        reset == period_remaining <= 0
        counted == (IF reset THEN 0 ELSE l.num_calls[f]) + 1
    IN [elapsed |-> IF reset THEN [l.elapsed EXCEPT ![f] = 0] ELSE l.elapsed,
        num_calls |-> [l.num_calls EXCEPT ![f] = counted],
        reset |-> reset,
        refused |-> counted > RATE_LIMIT,
        period_remaining |-> period_remaining]

\* The wrapper without @sleep_and_retry: a refused call raises
\* RateLimitException to the caller.
InvokeRaises(f) ==
    LET w == LimitsWrapper(rl, f)
        sent0 == IF w.reset THEN [rl.sent EXCEPT ![f] = 0] ELSE rl.sent
    IN rl' = [rl EXCEPT
                !.elapsed = w.elapsed,
                !.num_calls = w.num_calls,
                !.sent = IF w.refused THEN sent0
                         ELSE [sent0 EXCEPT ![f] = @ + 1],
                !.caller = IF w.refused
                           THEN [state |-> "failed", fn |-> f, remaining |-> 0,
                                 waited |-> FALSE]
                           ELSE [state |-> "idle", fn |-> f, remaining |-> 0,
                                 waited |-> FALSE]]

\* @sleep_and_retry around the wrapper: a refused call sleeps for the remaining
\* period and tries again; an admitted call sends the HTTP request.
\*   sent    f -> HTTP requests sent since the limiter's last reset
\*   caller  idle, or sleeping in f for some more seconds; waited tells that
\*           the latest call of fn slept before its request was sent
Invoke(f) ==
    LET w == LimitsWrapper(rl, f)
        sent0 == IF w.reset THEN [rl.sent EXCEPT ![f] = 0] ELSE rl.sent
    IN rl' = [rl EXCEPT
                !.elapsed = w.elapsed,
                !.num_calls = w.num_calls,
                !.sent = IF w.refused THEN sent0
                         ELSE [sent0 EXCEPT ![f] = @ + 1],
                !.caller = IF w.refused
                           THEN [state |-> "sleeping", fn |-> f,
                                 remaining |-> w.period_remaining,
                                 waited |-> TRUE]
                           ELSE [state |-> "idle", fn |-> f, remaining |-> 0,
                                 waited |-> rl.caller.state = "sleeping"]]

\* The order of the calls in fetch_and_store_options and process_ticker:
\* get_etf_holdings right after get_latest_etf_holding_date returned a date,
\* get_option_chain after get_option_expirations or another get_option_chain.
CallOrder(last, f) ==
    /\ f = "get_etf_holdings" => last = "get_latest_etf_holding_date"
    /\ f = "get_option_chain" =>
            last \in {"get_option_expirations", "get_option_chain"}

\* The running thread calls a fetch function of the provider.
RateCall(f) ==
    /\ rl.caller.state = "idle"
    /\ f \in FetchFunctions(rl.provider)
    /\ CallOrder(rl.caller.fn, f)
    /\ Invoke(f)
    /\ UNCHANGED <<filt, chain, hold, args, table, pc, cyc, tick, ncycles, timer, sched>>

\* time.sleep(period_remaining) is over: the call is tried again.
RateRetry ==
    /\ rl.caller.state = "sleeping"
    /\ rl.caller.remaining = 0
    /\ Invoke(rl.caller.fn)
    /\ UNCHANGED <<filt, chain, hold, args, table, pc, cyc, tick, ncycles, timer, sched>>

\* Time passes: a quantum, or what is left of the caller's sleep if that is less.
RateTimePasses ==
    /\ rl.caller.state = "sleeping" => rl.caller.remaining > 0
    /\ LET d == IF rl.caller.state = "sleeping"
                THEN Min(Quantum, rl.caller.remaining) ELSE Quantum
       IN rl' = [rl EXCEPT
                    !.elapsed = [f \in DOMAIN rl.elapsed |->
                                    Min(rl.elapsed[f] + d, Period)],
                    !.caller.remaining =
                        IF rl.caller.state = "sleeping" THEN @ - d ELSE @]
    /\ UNCHANGED <<filt, chain, hold, args, table, pc, cyc, tick, ncycles, timer, sched>>

----------------------------------------------------------------------------
\* get_option_chain, and what process_ticker does with its result.

\* An option record of the chain response: with an 'option_type' field ('put',
\* 'call' or something else) or without one.
OptionRecords ==
    [typed : {TRUE}, option_type : {"put", "call", "other"}, strike : {1, 2}]
        \cup [typed : {FALSE}, option_type : {""}, strike : {1}]

\* What response.json() of a chain response with status 200 may be:
\*   blank              a body of zero bytes (json() raises)
\*   empty_object       {}
\*   no_options         an object without 'options'
\*   options_null       {"options": null}
\*   options_no_option  {"options": {}}
\*   options_list       {"options": {"option": [...]}}
NoListKinds ==
    {"blank", "empty_object", "no_options", "options_null", "options_no_option"}

ChainBodies ==
    [kind : NoListKinds, option : {<< >>}]
        \cup [kind : {"options_list"}, option : SeqsUpTo(OptionRecords, MaxOptions)]

\* A filter that also lets through the records of any other type.
OfTypeLoose(options, type) ==
    SelectSeq(options, LAMBDA opt : opt.option_type \in {type, "other"})

\* [opt for opt in options if opt['option_type'] == type]
OfType(options, type) ==
    SelectSeq(options, LAMBDA opt : opt.option_type = type)

\* What get_option_chain does with a response of status 200:
\*   raised  "none", or the exception that leaves the function
\*   warned  the "No option data found" warning was logged
get_option_chain(data) ==
    LET result(raised, puts, calls, warned) ==
            [raised |-> raised, puts |-> puts, calls |-> calls, warned |-> warned]
    IN CASE data.kind = "blank" -> result("JSONDecodeError", << >>, << >>, FALSE)
         [] data.kind \in {"empty_object", "no_options"} ->
                result("none", << >>, << >>, TRUE)
         \* 'option' in data['options'] with data['options'] None
         [] data.kind = "options_null" -> result("TypeError", << >>, << >>, FALSE)
         [] data.kind = "options_no_option" -> result("none", << >>, << >>, TRUE)
         [] data.kind = "options_list" ->
                IF \E k \in 1..Len(data.option) : ~data.option[k].typed
                THEN result("KeyError", << >>, << >>, FALSE)
                ELSE result("none", OfType(data.option, "put"),
                            OfType(data.option, "call"), FALSE)

\* One pass of the body of the loop of process_ticker for an eligible
\* expiration: the chain is fetched; unless that raised, a row is inserted and
\* the loop goes on with the next expiration.
HandleChain ==
    /\ Len(chain.results) < MaxNormalizations
    /\ LET r == get_option_chain(chain.data)
       IN chain' = [chain EXCEPT !.results = Append(@,
                        [returned |-> r,
                         inserted |-> r.raised = "none",
                         next |-> IF r.raised = "none"
                                  THEN "next_expiration" ELSE "raise"])]
    /\ UNCHANGED <<filt, rl, hold, args, table, pc, cyc, tick, ncycles, timer, sched>>

----------------------------------------------------------------------------
\* get_etf_holdings on its own.

\* The holdings responses given to it.
HoldingsResponses ==
    [isList : {TRUE}, items : SeqsUpTo(HoldingObjects, MaxResponse)]
        \cup [isList : {FALSE}, items : {<< >>}]

\* etf_holdings = get_etf_holdings(etf_symbol, latest_date, fmp_api_key)
CallGetEtfHoldings ==
    /\ ~hold.called
    /\ hold' = [hold EXCEPT !.called = TRUE,
                            !.returned = get_etf_holdings(hold.body)]
    /\ UNCHANGED <<filt, rl, chain, args, table, pc, cyc, tick, ncycles, timer, sched>>

----------------------------------------------------------------------------
\* Specifications.

Intervals == {1, 2}

\* What is wrong with the command line for good: nothing, the database
\* parameters (every psycopg2.connect raises), --tradier_api_key (every call
\* of the options provider is answered 401) or --fmp_api_key (the same for the
\* holdings provider).
Invalid == {"nothing", "db", "tradier_api_key", "fmp_api_key"}
OldRow == [symbol |-> <<"A">>, expiration |-> 1]
InitialTables == {EmptyTable, [EmptyTable EXCEPT ![OldRow] = 1]}

\* Every --tickers list of the bounded size.
AllTickerLists == SeqsUpTo(Entries, MaxEntries) \ {<< >>}

\* The --tickers lists of the whole-process specification.
ProcessTickerLists == {<< <<"A">>, <<"S", "ETF">> >>}

\* No filter applied; no limiter followed.
NoFilter ==
    [now |-> Now, expirations |-> << >>, selected |-> << >>, applied |-> FALSE]

\* No chain response handled; no holdings response handled.
NoChain == [data |-> [kind |-> "empty_object", option |-> << >>], results |-> << >>]
NoHoldings ==
    [body |-> [isList |-> FALSE, items |-> << >>], called |-> FALSE,
     returned |-> << >>]

Limiters(provider) ==
    [provider |-> provider,
     elapsed |-> [f \in FetchFunctions(provider) |-> 0],
     num_calls |-> [f \in FetchFunctions(provider) |-> 0],
     sent |-> [f \in FetchFunctions(provider) |-> 0],
     caller |-> [state |-> "idle", fn |-> "none", remaining |-> 0,
                 waited |-> FALSE]]

NoLimiters == Limiters("options")

\* The process at the start of __main__, after parse_args.
InitWith(lists) ==
    /\ args \in [tickers : lists, drop_table : BOOLEAN, interval : Intervals,
                 invalid : Invalid]
    /\ table \in InitialTables
    /\ pc = [t \in Threads |-> IF t = MainThread THEN "setup" ELSE "free"]
    /\ cyc = [t \in Threads |-> IdleCycle]
    /\ tick = [t \in Threads |-> NoTick]
    /\ ncycles = 0
    /\ timer = [t \in Threads |-> 0]
    /\ sched = NoSched
    /\ filt = NoFilter
    /\ rl = NoLimiters
    /\ chain = NoChain
    /\ hold = NoHoldings

Init == InitWith(ProcessTickerLists)

Next ==
    \/ SetupDatabase
    \/ TimePasses
    \/ \E t \in Threads :
        \/ Connect(t)
        \/ PlainEntry(t)
        \/ EtfEntry(t)
        \/ Holding(t)
        \/ Commit(t)
        \/ Gate(t)
        \/ Arm(t)
        \/ Fire(t)

Spec == Init /\ [][Next]_vars

\* The startup fetch alone (the call of fetch_and_store_options in __main__),
\* over every --tickers list.
InitCycle == InitWith(AllTickerLists)

NextCycle ==
    \/ SetupDatabase
    \/ \E t \in Threads :
        /\ pc[t] = "startup_fetch"
        /\ \/ Connect(t)
           \/ PlainEntry(t)
           \/ EtfEntry(t)
           \/ Holding(t)
           \/ Commit(t)

SpecCycle == InitCycle /\ [][NextCycle]_vars

\* The process before it starts, as far as the other specifications go.
ProcessAtRest ==
    /\ args = [tickers |-> << <<"A">> >>, drop_table |-> FALSE, interval |-> 1,
               invalid |-> "nothing"]
    /\ table = EmptyTable
    /\ pc = [t \in Threads |-> IF t = MainThread THEN "setup" ELSE "free"]
    /\ cyc = [t \in Threads |-> IdleCycle]
    /\ tick = [t \in Threads |-> NoTick]
    /\ ncycles = 0
    /\ timer = [t \in Threads |-> 0]
    /\ sched = NoSched

\* The expiration filter: today is day 0; the instant is any of a few times of
\* day; the list is one expiration day, or the days 0, 1, 45, 91.
FilterTimesOfDay == {0, 1, 600, 1439}
FilterLists == {<<d>> : d \in -1..MaxOffset} \cup {<<0, 1, 45, 91>>}

InitDte ==
    /\ ProcessAtRest
    /\ rl = NoLimiters
    /\ chain = NoChain
    /\ hold = NoHoldings
    /\ filt \in [now : [day : {0}, tod : FilterTimesOfDay],
                 expirations : FilterLists,
                 selected : {<< >>},
                 applied : {FALSE}]

NextDte == ApplyFilter

SpecDte == InitDte /\ [][NextDte]_vars

\* The limiters of a provider from the moment the module is imported.
InitRate ==
    /\ ProcessAtRest
    /\ filt = NoFilter
    /\ chain = NoChain
    /\ hold = NoHoldings
    /\ \E provider \in Providers : rl = Limiters(provider)

NextRate ==
    \/ \E f \in AllFetchFunctions : RateCall(f)
    \/ RateRetry
    \/ RateTimePasses

SpecRate == InitRate /\ [][NextRate]_vars

\* One chain response of status 200, handled by the loop of process_ticker.
InitChain ==
    /\ ProcessAtRest
    /\ filt = NoFilter
    /\ rl = NoLimiters
    /\ hold = NoHoldings
    /\ chain \in [data : ChainBodies, results : {<< >>}]

NextChain == HandleChain

SpecChain == InitChain /\ [][NextChain]_vars

\* One holdings response of status 200, given to get_etf_holdings.
InitHoldings ==
    /\ ProcessAtRest
    /\ filt = NoFilter
    /\ rl = NoLimiters
    /\ chain = NoChain
    /\ hold \in [body : HoldingsResponses, called : {FALSE}, returned : {<< >>}]

NextHoldings == CallGetEtfHoldings

SpecHoldings == InitHoldings /\ [][NextHoldings]_vars

\* The same with time that goes on and a sleeping caller that wakes up:
\* time.sleep returns, and the loop of sleep_and_retry calls again.
SpecRateLive ==
    InitRate /\ [][NextRate]_vars /\ WF_vars(RateTimePasses) /\ WF_vars(RateRetry)

----------------------------------------------------------------------------
\* Claims about one cycle (SpecCycle).

NoDuplicates(seq) == \A a, b \in 1..Len(seq) : seq[a] = seq[b] => a = b

Occurrences(seq, x) == Cardinality({k \in 1..Len(seq) : seq[k] = x})

Last(seq) == seq[Len(seq)]

\* C1: within one cycle process_ticker is invoked at most once for each
\* ticker symbol, however often the symbol is reached (as a plain entry, as a
\* holding of one or more ETFs), and whether or not its attempt failed.
C1_AtMostOncePerCycle == \A t \in Threads : NoDuplicates(cyc[t].attempts)

\* A committed cycle in which a ticker's attempt failed with an HTTP error, the
\* ticker was met again as an ETF holding, and it was attempted once.
C1_Witness ==
    \E t \in Threads : \E x \in PlainSymbols :
        /\ cyc[t].phase = "committed"
        /\ x \in cyc[t].httpFailed
        /\ [symbol |-> x, via |-> "holding"] \in cyc[t].skipped
        /\ Occurrences(cyc[t].attempts, x) = 1

\* C3 (as claimed): a failing fetch of one ticker, on the expirations fetch or
\* on a chain fetch, never aborts the cycle.
C3_FetchFailureIsolated ==
    \A t \in Threads :
        cyc[t].phase = "aborted"
            => cyc[t].cause \notin {"expirations_fetch", "chain_fetch"}

\* C6: the committed table changes only by the one commit step of a cycle that
\* has gone through all its entries, which adds exactly the rows the cycle
\* inserted; a step in which an insert or the commit fails leaves it unchanged.
C6_AllOrNothing ==
    [][pc[MainThread] # "setup" =>
        \/ table' = table
        \/ \E t \in Threads :
            /\ cyc[t].phase = "entries"
            /\ cyc[t].i > Len(args.tickers)
            /\ cyc'[t].phase = "committed"
            /\ \A r \in Rows :
                table'[r] = table[r] + Occurrences(cyc[t].txn, r)]_vars

\* A cycle that had inserted rows when an insert or the commit failed, and a
\* committed table that holds nothing.
C6_Witness ==
    \E t \in Threads :
        /\ cyc[t].phase = "aborted"
        /\ cyc[t].cause \in {"insert", "commit"}
        /\ cyc[t].txn # << >>
        /\ table = EmptyTable

\* C7: a ticker whose expirations fetch raised an HTTP error has no row in the
\* cycle's transaction, the error does not end the cycle, and a cycle that
\* reaches its commit has attempted every plain entry.
C7_HttpErrorIsolated ==
    \A t \in Threads :
        /\ \A k \in 1..Len(cyc[t].txn) :
              cyc[t].txn[k].symbol \notin cyc[t].httpFailed
        /\ (/\ cyc[t].phase = "aborted"
            /\ cyc[t].cause \in {"expirations_fetch", "chain_fetch", "insert"})
              => Last(cyc[t].attempts) \notin cyc[t].httpFailed
        /\ (cyc[t].phase = "committed" \/ cyc[t].cause = "commit")
              => \A k \in 1..Len(args.tickers) :
                    ~EndsWithETF(args.tickers[k])
                        => Occurrences(cyc[t].attempts, args.tickers[k]) = 1

\* A committed cycle whose first ticker failed with an HTTP error and whose
\* second ticker was processed and has rows in the transaction.
C7_Witness ==
    \E t \in Threads : \E x, y \in PlainSymbols :
        /\ cyc[t].phase = "committed"
        /\ cyc[t].attempts = <<x, y>>
        /\ cyc[t].httpFailed = {x}
        /\ \E k \in 1..Len(cyc[t].txn) : cyc[t].txn[k].symbol = y

\* The plain entries of --tickers.
PlainConfigured ==
    {args.tickers[k] : k \in {j \in 1..Len(args.tickers) :
                                ~EndsWithETF(args.tickers[j])}}

\* A cycle that went through all its entries with no failed fetch.
CleanCycle(c) == c.phase = "committed" /\ c.httpFailed = {}

\* C12 (as claimed): in a cycle where no fetch fails, the tickers passed to
\* process_ticker are the plain configured symbols and all the symbols of the
\* resolved holdings lists, each once.
C12_ProcessedIsUnion ==
    \A t \in Threads :
        CleanCycle(cyc[t]) =>
            /\ {cyc[t].attempts[k] : k \in 1..Len(cyc[t].attempts)}
                  = PlainConfigured \cup cyc[t].resolved
            /\ NoDuplicates(cyc[t].attempts)

\* C12 (amended): in a cycle where no fetch fails, the tickers passed to
\* process_ticker are the plain configured symbols and the non-empty symbols
\* of the resolved holdings lists, each once.
C12_ProcessedIsUnionOfValid ==
    \A t \in Threads :
        CleanCycle(cyc[t]) =>
            /\ {cyc[t].attempts[k] : k \in 1..Len(cyc[t].attempts)}
                  = PlainConfigured \cup (cyc[t].resolved \ {<< >>})
            /\ NoDuplicates(cyc[t].attempts)

\* The scenario [A, S.ETF] with S resolved to [A, B]: A and B processed once.
C12_Witness ==
    \E t \in Threads :
        /\ CleanCycle(cyc[t])
        /\ args.tickers = << <<"A">>, <<"S", "ETF">> >>
        /\ cyc[t].resolved = {<<"A">>, <<"B">>}
        /\ cyc[t].attempts = << <<"A">>, <<"B">> >>

\* C14: an ETF entry the provider reports no dates for is left at once, with
\* no call of get_etf_holdings, no ticker processed and nothing inserted for
\* it, and no exception; a cycle that reaches its commit has still attempted
\* every plain entry.
C14_NoDatesSkipsEtf ==
    /\ [](\A t \in Threads :
            /\ cyc[t].noDate \cap cyc[t].holdingsCalled = {}
            /\ (cyc[t].phase = "committed" /\ cyc[t].noDate # {})
                  => \A k \in 1..Len(args.tickers) :
                        ~EndsWithETF(args.tickers[k])
                            => Occurrences(cyc[t].attempts, args.tickers[k]) = 1)
    /\ [][\A t \in Threads :
            (Running(t) /\ cyc'[t].noDate # cyc[t].noDate) =>
                /\ cyc'[t].noDate = cyc[t].noDate \cup {cyc[t].i}
                /\ cyc'[t].phase = "entries"
                /\ cyc'[t].i = cyc[t].i + 1
                /\ cyc'[t].attempts = cyc[t].attempts
                /\ cyc'[t].processed = cyc[t].processed
                /\ cyc'[t].txn = cyc[t].txn
                /\ cyc'[t].holdingsCalled = cyc[t].holdingsCalled]_vars

\* A committed cycle over [S.ETF, A]: no dates for S, and A processed.
C14_Witness ==
    \E t \in Threads :
        /\ cyc[t].phase = "committed"
        /\ args.tickers = << <<"S", "ETF">>, <<"A">> >>
        /\ cyc[t].noDate = {1}
        /\ cyc[t].attempts = << <<"A">> >>

----------------------------------------------------------------------------
\* Claims about the scheduler (Spec).

\* C4 (as claimed): after a cycle started by schedule_fetch has failed, a
\* schedule_fetch invocation is still at work or a Timer is pending.
C4_SchedulerSurvivesFailure ==
    \A t \in Threads :
        (cyc[t].phase = "aborted" /\ cyc[t].caller \in TickPcs)
            => \E u \in Threads : pc[u] \in TickPcs \cup {"armed"}

\* C8 (as claimed): a schedule_fetch invocation whose trading-hours test is
\* false has begun no invocation of fetch_and_store_options.
C8_ClosedTickIsNoOp ==
    \A t \in Threads : tick[t].gate = "closed" => tick[t].cycles = 0

\* C15: after setup_database no step takes a committed row away, and the
\* commit of a cycle adds the cycle's rows to the rows already there, also
\* when rows of the same ticker and expiration are there already.
C15_AppendOnly ==
    [][pc[MainThread] # "setup" =>
        /\ \A r \in Rows : table'[r] >= table[r]
        /\ \A t \in Threads :
              (cyc[t].phase # "committed" /\ cyc'[t].phase = "committed") =>
                  \A r \in Rows :
                      table'[r] = table[r] + Occurrences(cyc[t].txn, r)]_vars

\* The table was dropped at startup, and two cycles have since committed a row
\* of the same ticker and expiration: it is there twice.
C15_Witness ==
    /\ args.drop_table
    /\ ncycles >= 2
    /\ \E r \in Rows : table[r] >= 2

\* C16 (as claimed): with invalid database parameters or an invalid provider
\* API key the process ends at startup: schedule_fetch is never entered and no
\* Timer is ever started.
C16_FatalErrorExitsAtStartup ==
    args.invalid # "nothing" =>
        \A t \in Threads : pc[t] \notin TickPcs \cup {"armed"}

\* C19: every invocation of fetch_and_store_options begins with an empty
\* processed_tickers, which then holds the tickers this invocation passed to
\* process_ticker and no others; so a later cycle that reaches its commit has
\* attempted every plain entry again, whatever earlier cycles processed.
C19_ProcessedSetPerCycle ==
    /\ [](\A t \in Threads :
            /\ cyc[t].processed =
                   {cyc[t].attempts[k] : k \in 1..Len(cyc[t].attempts)}
            /\ cyc[t].phase = "committed" =>
                   \A k \in 1..Len(args.tickers) :
                       ~EndsWithETF(args.tickers[k])
                           => Occurrences(cyc[t].attempts, args.tickers[k]) = 1)
    /\ [][\A t \in Threads :
            (ncycles' = ncycles + 1 /\ cyc'[t] # cyc[t])
                => cyc'[t].processed = {}]_vars

\* The cycle of a schedule_fetch invocation on the main thread, after the
\* startup fetch went through: ticker A, attempted then, is attempted again.
C19_Witness ==
    /\ ncycles >= 2
    /\ cyc[MainThread].caller = "tick_fetch"
    /\ cyc[MainThread].phase = "committed"
    /\ <<"A">> \in cyc[MainThread].processed
    /\ Occurrences(cyc[MainThread].attempts, <<"A">>) = 1

\* C20 (as claimed): one invocation of schedule_fetch begins at most one
\* invocation of fetch_and_store_options, whatever its trading-hours test says.
C20_AtMostOneCyclePerTick ==
    \A t \in Threads : tick[t].cycles <= 1

\* C9 (as claimed): consecutive schedule_fetch invocations start exactly
\* --interval seconds apart.
C9_StartToStartIsInterval ==
    sched.gap # -1 => sched.gap = args.interval

\* C9 (amended): consecutive schedule_fetch invocations start --interval
\* seconds plus the time the earlier one spent before starting its Timer apart.
C9_StartToStartIsBusyPlusInterval ==
    sched.gap # -1 => sched.gap = sched.prevBusy + args.interval

\* Two invocations, the earlier of which spent time before starting its Timer.
C9_Witness == sched.gap # -1 /\ sched.prevBusy > 0

\* C10: at most one invocation of fetch_and_store_options is in progress.
C10_NoConcurrentCycles ==
    Cardinality({t \in Threads : Running(t)}) <= 1

\* A Timer thread is inside fetch_and_store_options after the main thread has
\* returned from schedule_fetch.
C10_Witness ==
    \E u \in TimerThreads : Running(u) /\ pc[MainThread] = "done"

----------------------------------------------------------------------------
\* Claims about the expiration filter (SpecDte).

\* C2 (as claimed): an expiration is selected iff the whole-day difference
\* between the expiration date and the current date is within [1, 90], at any
\* time of day.
C2_SelectedIffDateDifferenceInWindow ==
    filt.applied =>
        \A k \in 1..Len(filt.expirations) :
            LET e == filt.expirations[k]
            IN (\E j \in 1..Len(filt.selected) : filt.selected[j] = e)
                <=> (MinDte <= e - filt.now.day /\ e - filt.now.day <= MaxDte)

----------------------------------------------------------------------------
\* Claims about the rate limit (SpecRate).

RECURSIVE SumOver(_, _)
SumOver(S, g) ==
    IF S = {} THEN 0
    ELSE LET x == CHOOSE y \in S : TRUE
         IN g[x] + SumOver(S \ {x}, g)

\* The HTTP requests the provider's functions have sent since their limiters'
\* last resets, for the limiters reset less than Period seconds ago: all of
\* them were sent within the last Period seconds.
SentWithinPeriod ==
    SumOver({f \in DOMAIN rl.sent : rl.elapsed[f] < Period}, rl.sent)

\* C5 (as claimed): the calls of all functions of one provider within a
\* 60-second window never exceed RATE_LIMIT.
C5_ProviderBudget == SentWithinPeriod <= RATE_LIMIT

\* C11: a call of a rate-limited function never ends in a failure because of
\* the limit, and a call that found the budget of its window used up (the
\* caller sleeps) is followed by the sending of its HTTP request.
C11_ThrottleBlocksThenSends ==
    /\ [](rl.caller.state \in {"idle", "sleeping"})
    /\ \A f \in AllFetchFunctions :
          (rl.caller.state # "idle" /\ rl.caller.fn = f)
              ~> (rl.caller.state = "idle" /\ rl.caller.fn = f
                    /\ rl.caller.waited /\ rl.sent[f] >= 1)

\* A call that slept has sent its request.
C11_Witness ==
    /\ rl.caller.state = "idle"
    /\ rl.caller.waited
    /\ rl.caller.fn \in DOMAIN rl.sent
    /\ rl.sent[rl.caller.fn] >= 1

----------------------------------------------------------------------------
\* Claims about get_option_chain (SpecChain).

\* C13 (as claimed): for a chain response without an option list (an empty
\* body, no 'options', 'options' null or without 'option'), get_option_chain
\* returns ([], []) without raising, logs a warning, and the loop goes on with
\* the next expiration.
C13_NoDataReturnsEmpty ==
    \A k \in 1..Len(chain.results) :
        chain.data.kind \in NoListKinds =>
            /\ chain.results[k].returned.raised = "none"
            /\ chain.results[k].returned.puts = << >>
            /\ chain.results[k].returned.calls = << >>
            /\ chain.results[k].returned.warned
            /\ chain.results[k].next = "next_expiration"

\* The positions of the records of an option list that have the given type.
Typed(options, type) ==
    {k \in 1..Len(options) : options[k].option_type = type}

\* out is made of the records of the given type, in their order.
ExactlyOfType(out, options, type) ==
    /\ Len(out) = Cardinality(Typed(options, type))
    /\ \A k \in Typed(options, type) :
          out[Cardinality({m \in Typed(options, type) : m <= k})] = options[k]

\* C18: for a chain response with an option list whose records all have an
\* option_type, get_option_chain returns; puts is the records of type 'put'
\* and calls the records of type 'call', each in input order; no record is in
\* both; and handling the same response again gives the same result.
C18_PartitionIsPure ==
    chain.data.kind = "options_list" =>
        /\ \A k \in 1..Len(chain.results) :
              LET r == chain.results[k].returned
              IN /\ (\A j \in 1..Len(chain.data.option) :
                        chain.data.option[j].typed) <=> r.raised = "none"
                 /\ r.raised = "none" =>
                       /\ ExactlyOfType(r.puts, chain.data.option, "put")
                       /\ ExactlyOfType(r.calls, chain.data.option, "call")
                       /\ \A a \in 1..Len(r.puts), b \in 1..Len(r.calls) :
                             r.puts[a] # r.calls[b]
        /\ \A k, j \in 1..Len(chain.results) :
              chain.results[k] = chain.results[j]

\* A response with a call, a put and a record of another type, handled
\* twice: one put and one call returned both times.
C18_Witness ==
    /\ chain.data.kind = "options_list"
    /\ Len(chain.results) = 2
    /\ Len(chain.data.option) = 3
    /\ chain.data.option[1].option_type = "call"
    /\ chain.data.option[2].option_type = "other"
    /\ chain.data.option[3].option_type = "put"
    /\ chain.results[2].returned.puts = <<chain.data.option[3]>>
    /\ chain.results[2].returned.calls = <<chain.data.option[1]>>

----------------------------------------------------------------------------
\* Claims about get_etf_holdings (SpecHoldings).

\* The positions of the entries of a holdings list that carry 'symbol'.
WithSymbol(items) == {k \in 1..Len(items) : items[k].has}

\* C17: for a list of holding objects, get_etf_holdings returns the 'symbol'
\* values of the entries that carry one, in their order: the entry at position
\* k is at the place given by the number of such entries up to k, and there is
\* nothing else in the result.
C17_SymbolsOfEntriesInOrder ==
    (hold.called /\ hold.body.isList) =>
        LET items == hold.body.items
        IN /\ Len(hold.returned) = Cardinality(WithSymbol(items))
           /\ \A k \in WithSymbol(items) :
                 hold.returned[Cardinality({m \in WithSymbol(items) : m <= k})]
                     = items[k].symbol

\* An entry without 'symbol' between two entries with different symbols: the
\* two symbols are returned in order.
C17_Witness ==
    /\ hold.called
    /\ hold.body.isList
    /\ Len(hold.body.items) = 3
    /\ hold.body.items[1].has /\ ~hold.body.items[2].has /\ hold.body.items[3].has
    /\ hold.body.items[1].symbol # hold.body.items[3].symbol
    /\ hold.returned = <<hold.body.items[1].symbol, hold.body.items[3].symbol>>

====
